---- MODULE Spec2Model ----
(***************************************************************************)
(* Model of DocManager (mongo_connector/doc_managers/neo4j_doc_manager.py): *)
(* upsert, bulk_upsert (with its generator iterate_chunks), update, remove *)
(* and search, run by one caller against one graph store.                  *)
(*                                                                         *)
(* The caller owns MaxDocs document objects (dicts).  upsert and           *)
(* bulk_upsert pop "_id" from the dict they are handed, so has_id is part  *)
(* of the state.  The graph store is the pair (nodes, rels); a commit or   *)
(* an execute may fail, which is a nondeterministic choice of the action.  *)
(* NodesAndRelationshipsBuilder, NodesAndRelationshipsUpdater and the      *)
(* store's reading of the statements are not in the source file and follow *)
(* the specification document.                                             *)
(***************************************************************************)
EXTENDS Integers, Sequences, FiniteSets

\* ------------------------------------------------------------- bounds
MaxDocs == 3
MaxStream == 3
MaxChunk == 2
MaxTs == 1


Handles == 1..MaxDocs
Ts == 1..MaxTs
ChunkSizes == 0..MaxChunk

Min(a, b) == IF a < b THEN a ELSE b

\* ------------------------------------------------------------- documents
Digits == <<"1", "2", "3", "4", "5", "6", "7", "8", "9">>
IntToStr(n) == IF n = 0 THEN "0" ELSE Digits[n]

\* The "_id" value document h was created with: odd handles carry an
\* integer, even handles a string.
RawId(h) ==
  IF h % 2 = 1 THEN [t |-> "int", v |-> (h + 1) \div 2]
               ELSE [t |-> "str", v |-> IntToStr(h \div 2)]

\* Document h has one nested mapping under the field FieldName.
Nested(h) == h % 2 = 0
FieldName == "a"

\* compat.u: the text of the value.
u(raw) == IF raw.t = "int" THEN IntToStr(raw.v) ELSE raw.v

\* ------------------------------------------------------------- namespaces
\* A namespace is a sequence of characters.
Namespaces == { <<"D", ".", "P">>, <<"x">> }

Lower(c) == IF c = "D" THEN "d" ELSE c

Dots(ns) == { k \in 1..Len(ns) : ns[k] = "." }
FirstDot(ns) == CHOOSE k \in Dots(ns) : \A j \in Dots(ns) : k <= j

\* namespace.split('.', 1)
Split1(ns) ==
  IF Dots(ns) = {} THEN << ns >>
  ELSE << SubSeq(ns, 1, FirstDot(ns) - 1), SubSeq(ns, FirstDot(ns) + 1, Len(ns)) >>

\* index, doc_type = namespace.split('.', 1): unpacking fails unless there
\* are two parts.
index_and_mapping(ns) ==
  LET parts == Split1(ns) IN
  IF Len(parts) = 2
  THEN [ok |-> TRUE, index |-> [k \in 1..Len(parts[1]) |-> Lower(parts[1][k])],
        doc_type |-> parts[2]]
  ELSE [ok |-> FALSE, index |-> <<>>, doc_type |-> <<>>]

DocTypes == { index_and_mapping(ns).doc_type : ns \in { m \in Namespaces : index_and_mapping(m).ok } }
FieldLabel == << FieldName >>
AllLabels == DocTypes \cup { FieldLabel }

\* ------------------------------------------------------------- statements
\* A statement appended to a transaction.  src is the position of the
\* document in the stream it came from (0 outside bulk_upsert).
Stmt(op, src, label, id, doc, ts, to) ==
  [op |-> op, src |-> src, label |-> label, id |-> id, doc |-> doc, ts |-> ts, to |-> to]

ChildId(doc_id) == doc_id \o "-" \o FieldName \o "-0"

\* NodesAndRelationshipsBuilder(doc, doc_type, doc_id, metadata): the root
\* node carries the label Document (doc) and the timestamp; ts 0 is "no _ts".
BuilderNodes(h, src, doc_type, doc_id, ts) ==
  << Stmt("mergeNode", src, doc_type, doc_id, TRUE, ts, <<>>) >>
  \o (IF Nested(h)
      THEN << Stmt("mergeNode", src, FieldLabel, ChildId(doc_id), FALSE, 0, <<>>) >>
      ELSE <<>>)

BuilderRels(h, src, doc_type, doc_id) ==
  IF Nested(h)
  THEN << Stmt("mergeRel", src, doc_type, doc_id, FALSE, 0, << FieldLabel, ChildId(doc_id) >>) >>
  ELSE <<>>

BuilderDocTypes(h, doc_type) ==
  << doc_type >> \o (IF Nested(h) THEN << FieldLabel >> ELSE <<>>)

\* As DocStatements, with the two loops in the other order.
DocStatementsRelsFirst(h, src, doc_type, doc_id, ts) ==
  BuilderRels(h, src, doc_type, doc_id) \o BuilderNodes(h, src, doc_type, doc_id, ts)

\* for statement in builder.query_nodes.keys(): tx.append(...)
\* for relationship in builder.relationships_query.keys(): tx.append(...)
DocStatements(h, src, doc_type, doc_id, ts) ==
  BuilderNodes(h, src, doc_type, doc_id, ts) \o BuilderRels(h, src, doc_type, doc_id)

\* NodesAndRelationshipsUpdater.run_update(update_spec, doc_id, doc_type)
UpdateSpecs == { "set", "unset" }
UpdaterStatements(update_spec, doc_id, doc_type) ==
  CASE update_spec = "set"   -> << Stmt("setProp", 0, doc_type, doc_id, FALSE, 0, <<>>) >>
    [] update_spec = "unset" -> << Stmt("unsetProp", 0, doc_type, doc_id, FALSE, 0, <<>>) >>
    [] OTHER                 -> <<>>

\* "MATCH (d:Document) WHERE d._id={doc_id} OPTIONAL MATCH (d)-[r]-() DELETE d, r"
RemoveStatement(doc_id) == Stmt("delete", 0, <<>>, doc_id, TRUE, 0, <<>>)

\* ------------------------------------------------------------- the store
Key(n) == << n.label, n.id >>

\* What the store does with one statement of a committed transaction.
\* Nodes are merged on (label, id); property values other than _ts are left out.
ApplyStmt(st, s) ==
  CASE s.op = "mergeNode" ->
         [st EXCEPT !.nodes = { n \in @ : Key(n) # << s.label, s.id >> }
                       \cup { [label |-> s.label, id |-> s.id, doc |-> s.doc, ts |-> s.ts] }]
    [] s.op = "setProp" ->
         IF \E n \in st.nodes : Key(n) = << s.label, s.id >>
         THEN st
         ELSE [st EXCEPT !.nodes = @ \cup { [label |-> s.label, id |-> s.id, doc |-> FALSE, ts |-> 0] }]
    [] s.op = "mergeRel" ->
         [st EXCEPT !.rels = @ \cup { [from |-> << s.label, s.id >>, to |-> s.to] }]
    [] s.op = "delete" ->
         LET D == { Key(n) : n \in { m \in st.nodes : m.doc /\ m.id = s.id } } IN
         [nodes |-> { n \in st.nodes : Key(n) \notin D },
          rels  |-> { r \in st.rels : r.from \notin D /\ r.to \notin D }]
    [] OTHER -> st

RECURSIVE ApplyTx(_, _)
ApplyTx(st, t) ==
  IF t = <<>> THEN st ELSE ApplyTx(ApplyStmt(st, Head(t)), Tail(t))

\* "MATCH (d:Document) WHERE d._ts>={start_ts} AND d._ts<={end_ts} RETURN d"
SearchResult(ns, start_ts, end_ts) ==
  { n \in ns : n.doc /\ n.ts >= start_ts /\ n.ts <= end_ts }

\* ------------------------------------------------------------- state
VARIABLES
  chunk_size,   \* self.chunk_size
  has_id,       \* has_id[h]: document h still holds the key "_id"
  nodes, rels,  \* the graph store
  sent,         \* sent[l]: constraint statements executed for label l
  pc,           \* "idle", "done" (a call has ended), or the position inside bulk_upsert
  docs, pos,    \* the documents handed to the call and how many next(docs) returned a document
  namespace, timestamp,  \* arguments of the call
  more_chunks, i, tx,    \* locals of iterate_chunks; tx is also the transaction of upsert
  begun,        \* transactions begun by the call
  open,         \* of those, begun and not committed
  committed,    \* transactions committed by the call, in order
  last, ret,    \* the call and how it ended ("running" until then)
  found,        \* what search returned
  written,      \* labels referenced by committed statements of upsert, bulk_upsert, update
  removed       \* ids removed and not upserted since

vars == << chunk_size, has_id, nodes, rels, sent, pc, docs, pos, namespace, timestamp,
           more_chunks, i, tx, begun, open, committed, last, ret, found, written, removed >>

store == [nodes |-> nodes, rels |-> rels]

\* DocManager.__init__
Init ==
  /\ chunk_size \in ChunkSizes
  /\ has_id = [h \in Handles |-> TRUE]
  /\ nodes = {} /\ rels = {}
  /\ sent = [l \in AllLabels |-> 0]
  /\ pc = "idle"
  /\ docs = <<>> /\ pos = 0
  /\ namespace = <<>> /\ timestamp = 0
  /\ more_chunks = FALSE /\ i = 0 /\ tx = <<>>
  /\ begun = 0 /\ open = 0 /\ committed = <<>>
  /\ last = "init" /\ ret = "ok"
  /\ found = {}
  /\ written = {} /\ removed = {}

\* ------------------------------------------------------------- helpers
\* The streams handed to bulk_upsert: every document object at most once,
\* in the order the host created them.
Streams ==
  { s \in UNION { [1..n -> Handles] : n \in 0..MaxStream } :
      \A a, b \in 1..Len(s) : a < b => s[a] < s[b] }

\* Labels a transaction's statements reference.
TxLabels(t) ==
  { t[k].label : k \in 1..Len(t) }
  \cup { t[k].to[1] : k \in { j \in 1..Len(t) : t[j].op = "mergeRel" } }

\* Ids of the Document nodes a transaction merges.
TxRootIds(t) == { t[k].id : k \in { j \in 1..Len(t) : t[j].op = "mergeNode" /\ t[j].doc } }

\* apply_id_constraint executes one statement per label, in order; the run
\* stops at the first one the store rejects.  n statements were executed.
SentAfter(types, n) ==
  [l \in AllLabels |-> sent[l] + Cardinality({ k \in 1..n : types[k] = l })]

Ends(r, b, o, c, t) ==
  /\ ret' = r /\ begun' = b /\ open' = o /\ committed' = c /\ tx' = t

StoreBecomes(st) == nodes' = st.nodes /\ rels' = st.rels

\* The arguments of a call that is not bulk_upsert; it has no generator.
Args(d, ns, ts) ==
  /\ docs' = d /\ pos' = 0 /\ namespace' = ns /\ timestamp' = ts
  /\ more_chunks' = FALSE /\ i' = 0

\* ------------------------------------------------------------- upsert
UpsertBody(h, ns, ts) ==
  LET m == index_and_mapping(ns)
      doc_id == u(RawId(h))
      types == BuilderDocTypes(h, m.doc_type)
      t == DocStatements(h, 0, m.doc_type, doc_id, ts)
  IN
  /\ pc' = "done" /\ last' = "upsert"
  /\ Args(<< h >>, ns, ts)
  /\ found' = {}
  /\ UNCHANGED chunk_size
  /\ \/ /\ ~m.ok
        /\ Ends("ValueError", 0, 0, <<>>, <<>>)
        /\ UNCHANGED << has_id, nodes, rels, sent, written, removed >>
     \/ /\ m.ok /\ ~has_id[h]
        /\ Ends("KeyError", 0, 0, <<>>, <<>>)
        /\ UNCHANGED << has_id, nodes, rels, sent, written, removed >>
     \/ /\ m.ok /\ has_id[h]
        /\ has_id' = [has_id EXCEPT ![h] = FALSE]
        /\ \/ \E f \in 1..Len(types) :
                /\ sent' = SentAfter(types, f)
                /\ Ends("ConstraintError", 0, 0, <<>>, <<>>)
                /\ UNCHANGED << nodes, rels, written, removed >>
           \/ /\ sent' = SentAfter(types, Len(types))
              /\ \/ /\ Ends("ok", 1, 0, << t >>, t)
                    /\ StoreBecomes(ApplyTx(store, t))
                    /\ written' = written \cup TxLabels(t)
                    /\ removed' = removed \ TxRootIds(t)
                 \/ /\ Ends("CommitError", 1, 1, <<>>, t)
                    /\ UNCHANGED << nodes, rels, written, removed >>

Upsert(h, ns, ts) == pc = "idle" /\ UpsertBody(h, ns, ts)

\* The host hands the document object of an upsert that succeeded to upsert
\* again, with the same namespace and timestamp.
UpsertSame ==
  /\ pc = "done" /\ last = "upsert" /\ ret = "ok"
  /\ UpsertBody(docs[1], namespace, timestamp)

\* ------------------------------------------------------------- update
\* timestamp is not read.
Update(document_id, update_spec, ns) ==
  LET m == index_and_mapping(ns)
      doc_id == u(document_id)
      t == UpdaterStatements(update_spec, doc_id, m.doc_type)
  IN
  /\ pc = "idle"
  /\ pc' = "done" /\ last' = "update"
  /\ Args(<<>>, ns, 0)
  /\ found' = {}
  /\ UNCHANGED << chunk_size, has_id, sent, removed >>
  /\ \/ /\ ~m.ok
        /\ Ends("ValueError", 1, 1, <<>>, <<>>)
        /\ UNCHANGED << nodes, rels, written >>
     \/ /\ m.ok
        /\ \/ /\ Ends("ok", 1, 0, << t >>, t)
              /\ StoreBecomes(ApplyTx(store, t))
              /\ written' = written \cup TxLabels(t)
           \/ /\ Ends("CommitError", 1, 1, <<>>, t)
              /\ UNCHANGED << nodes, rels, written >>

\* ------------------------------------------------------------- remove
\* timestamp is not read.
RemoveNoCommit(document_id, ns) ==
  LET m == index_and_mapping(ns)
      doc_id == u(document_id)
      t == << RemoveStatement(doc_id) >>
  IN
  /\ pc = "idle"
  /\ pc' = "done" /\ last' = "remove"
  /\ Args(<<>>, ns, 0)
  /\ found' = {}
  /\ UNCHANGED << chunk_size, has_id, sent, written, nodes, rels >>
  /\ \/ /\ ~m.ok
        /\ Ends("ValueError", 0, 0, <<>>, <<>>)
        /\ UNCHANGED removed
     \/ /\ m.ok
        /\ Ends("ok", 1, 0, << t >>, t)
        /\ removed' = removed \cup { doc_id }

Remove(document_id, ns) ==
  LET m == index_and_mapping(ns)
      doc_id == u(document_id)
      t == << RemoveStatement(doc_id) >>
  IN
  /\ pc = "idle"
  /\ pc' = "done" /\ last' = "remove"
  /\ Args(<<>>, ns, 0)
  /\ found' = {}
  /\ UNCHANGED << chunk_size, has_id, sent, written >>
  /\ \/ /\ ~m.ok
        /\ Ends("ValueError", 0, 0, <<>>, <<>>)
        /\ UNCHANGED << nodes, rels, removed >>
     \/ /\ m.ok
        /\ \/ /\ Ends("ok", 1, 0, << t >>, t)
              /\ StoreBecomes(ApplyTx(store, t))
              /\ removed' = removed \cup { doc_id }
           \/ /\ Ends("CommitError", 1, 1, <<>>, t)
              /\ UNCHANGED << nodes, rels, removed >>

\* ------------------------------------------------------------- search
Search(start_ts, end_ts) ==
  /\ pc = "idle"
  /\ pc' = "done" /\ last' = "search"
  /\ Args(<<>>, <<>>, 0)
  /\ UNCHANGED << chunk_size, has_id, sent, written, removed, nodes, rels >>
  /\ \/ /\ Ends("ok", 0, 0, <<>>, <<>>)
        /\ found' = SearchResult(nodes, start_ts, end_ts)
     \/ /\ Ends("StoreError", 0, 0, <<>>, <<>>)
        /\ found' = {}

\* ------------------------------------------------------------- bulk_upsert
\* begun and committed are recorded up to HistLen entries: with
\* chunk_size >= 1 a call over N documents begins at most N + 1
\* transactions and commits at most N.
HistLen == Len(docs) + 1

BulkCall(stream, ns, ts) ==
  /\ pc = "idle"
  /\ pc' = "while"
  /\ docs' = stream /\ pos' = 0
  /\ namespace' = ns /\ timestamp' = ts
  /\ more_chunks' = TRUE /\ i' = 0
  /\ last' = "bulk"
  /\ Ends("running", 0, 0, <<>>, <<>>)
  /\ UNCHANGED << chunk_size, has_id, nodes, rels, sent, found, written, removed >>

\* while more_chunks: tx = self.graph.cypher.begin()
BulkBegin ==
  /\ pc = "while" /\ more_chunks
  /\ pc' = "for"
  /\ tx' = <<>> /\ i' = 0
  /\ begun' = Min(begun + 1, HistLen)
  /\ open' = open + 1
  /\ UNCHANGED << chunk_size, has_id, nodes, rels, sent, docs, pos, namespace, timestamp,
                  more_chunks, committed, last, ret, found, written, removed >>

\* the generator is exhausted; "for tx in iterate_chunks()" ends
BulkReturn ==
  /\ pc = "while" /\ ~more_chunks
  /\ pc' = "done"
  /\ ret' = "ok"
  /\ UNCHANGED << chunk_size, has_id, nodes, rels, sent, docs, pos, namespace, timestamp,
                  more_chunks, i, tx, begun, open, committed, last, found, written, removed >>

\* one pass of "for i in range(self.chunk_size)" in which next(docs) returns a document
BulkPull ==
  LET h == docs[pos + 1]
      m == index_and_mapping(namespace)
      doc_id == u(RawId(h))
      types == BuilderDocTypes(h, m.doc_type)
  IN
  /\ pc = "for" /\ i < chunk_size /\ pos < Len(docs)
  /\ pos' = pos + 1
  /\ UNCHANGED << chunk_size, nodes, rels, docs, namespace, timestamp, more_chunks,
                  begun, open, committed, last, found, written, removed >>
  /\ \/ /\ ~m.ok
        /\ pc' = "done" /\ ret' = "ValueError"
        /\ UNCHANGED << has_id, sent, tx, i >>
     \/ /\ m.ok /\ ~has_id[h]
        /\ pc' = "done" /\ ret' = "KeyError"
        /\ UNCHANGED << has_id, sent, tx, i >>
     \/ /\ m.ok /\ has_id[h]
        /\ has_id' = [has_id EXCEPT ![h] = FALSE]
        /\ \/ \E f \in 1..Len(types) :
                /\ sent' = SentAfter(types, f)
                /\ pc' = "done" /\ ret' = "ConstraintError"
                /\ UNCHANGED << tx, i >>
           \/ /\ sent' = SentAfter(types, Len(types))
              /\ tx' = tx \o DocStatements(h, pos + 1, m.doc_type, doc_id, timestamp)
              /\ i' = i + 1
              /\ UNCHANGED << pc, ret >>

\* As BulkStop, with the test "if i > 0" left out.
BulkStopAlwaysYields ==
  /\ pc = "for" /\ i < chunk_size /\ pos >= Len(docs)
  /\ more_chunks' = FALSE
  /\ pc' = "yield"
  /\ UNCHANGED << chunk_size, has_id, nodes, rels, sent, docs, pos, namespace, timestamp,
                  i, tx, begun, open, committed, last, ret, found, written, removed >>

\* except StopIteration: more_chunks = False; if i > 0: yield tx; break
BulkStop ==
  /\ pc = "for" /\ i < chunk_size /\ pos >= Len(docs)
  /\ more_chunks' = FALSE
  /\ pc' = IF i > 0 THEN "yield" ELSE "while"
  /\ UNCHANGED << chunk_size, has_id, nodes, rels, sent, docs, pos, namespace, timestamp,
                  i, tx, begun, open, committed, last, ret, found, written, removed >>

\* As BulkForEnd, with the full chunk not handed out: the loop goes on.
BulkForEndNoYield ==
  /\ pc = "for" /\ i >= chunk_size
  /\ pc' = "while"
  /\ UNCHANGED << chunk_size, has_id, nodes, rels, sent, docs, pos, namespace, timestamp,
                  more_chunks, i, tx, begun, open, committed, last, ret, found, written, removed >>

\* range(self.chunk_size) is used up; if more_chunks: yield tx
BulkForEnd ==
  /\ pc = "for" /\ i >= chunk_size
  /\ pc' = IF more_chunks THEN "yield" ELSE "while"
  /\ UNCHANGED << chunk_size, has_id, nodes, rels, sent, docs, pos, namespace, timestamp,
                  more_chunks, i, tx, begun, open, committed, last, ret, found, written, removed >>

\* for tx in iterate_chunks(): tx.commit()   -- the commit succeeds and the
\* generator is resumed
BulkCommit ==
  /\ pc = "yield"
  /\ pc' = "while"
  /\ committed' = IF Len(committed) < HistLen THEN Append(committed, tx) ELSE committed
  /\ open' = open - 1
  /\ StoreBecomes(ApplyTx(store, tx))
  /\ written' = written \cup TxLabels(tx)
  /\ removed' = removed \ TxRootIds(tx)
  /\ UNCHANGED << chunk_size, has_id, sent, docs, pos, namespace, timestamp,
                  more_chunks, i, tx, begun, last, ret, found >>

\* As BulkCommitFail, with the error caught and the loop resumed.
BulkCommitFailContinues ==
  /\ pc = "yield"
  /\ pc' = "while"
  /\ ret' = "CommitError"
  /\ UNCHANGED << chunk_size, has_id, nodes, rels, sent, docs, pos, namespace, timestamp,
                  more_chunks, i, tx, begun, open, committed, last, found, written, removed >>

\* tx.commit() raises; the error leaves bulk_upsert
BulkCommitFail ==
  /\ pc = "yield"
  /\ pc' = "done"
  /\ ret' = "CommitError"
  /\ UNCHANGED << chunk_size, has_id, nodes, rels, sent, docs, pos, namespace, timestamp,
                  more_chunks, i, tx, begun, open, committed, last, found, written, removed >>

\* The call has returned to the host; its arguments and locals are gone.
Return ==
  /\ pc = "done"
  /\ pc' = "idle"
  /\ Args(<<>>, <<>>, 0)
  /\ last' = "init"
  /\ found' = {}
  /\ Ends("ok", 0, 0, <<>>, <<>>)
  /\ UNCHANGED << chunk_size, has_id, nodes, rels, sent, written, removed >>

\* ------------------------------------------------------------- specification
RawIds == { RawId(h) : h \in Handles }

Next ==
  \/ \E h \in Handles, ns \in Namespaces, ts \in Ts : Upsert(h, ns, ts)
  \/ UpsertSame
  \/ \E r \in RawIds, us \in UpdateSpecs, ns \in Namespaces : Update(r, us, ns)
  \/ \E r \in RawIds, ns \in Namespaces : Remove(r, ns)
  \/ \E a \in 0..MaxTs, b \in 0..(MaxTs + 1) : Search(a, b)
  \/ \E s \in Streams, ns \in Namespaces, ts \in Ts : BulkCall(s, ns, ts)
  \/ BulkBegin
  \/ BulkPull
  \/ BulkStop
  \/ BulkForEnd
  \/ BulkCommit
  \/ BulkCommitFail
  \/ BulkReturn
  \/ Return

Spec == Init /\ [][Next]_vars

\* upsert and bulk_upsert on their own: call after call.
WriteNext ==
  \/ \E h \in Handles, ns \in Namespaces, ts \in Ts : Upsert(h, ns, ts)
  \/ \E s \in Streams, ns \in Namespaces, ts \in Ts : BulkCall(s, ns, ts)
  \/ BulkBegin
  \/ BulkPull
  \/ BulkStop
  \/ BulkForEnd
  \/ BulkCommit
  \/ BulkCommitFail
  \/ BulkReturn
  \/ Return

WriteSpec == Init /\ [][WriteNext]_vars

\* A step that can be taken is taken: the host runs the call to its end
\* and the store answers every request.
FairWriteSpec == WriteSpec /\ WF_vars(WriteNext)

\* ------------------------------------------------------------- properties
Ceil(n, c) == (n + c - 1) \div c

\* Stream positions of the documents whose statements a transaction holds.
DocsIn(t) == { t[k].src : k \in 1..Len(t) }
CommittedDocs == UNION { DocsIn(committed[k]) : k \in 1..Len(committed) }

BulkPcs == { "while", "for", "yield" }
BulkOk == pc = "done" /\ last = "bulk" /\ ret = "ok"
DocErrors == { "ValueError", "KeyError", "ConstraintError" }

\* C1: a bulk_upsert over N documents with chunk size C >= 1 that met no
\* failure has committed ceil(N/C) transactions (none for N = 0), the last
\* of them holding N mod C documents, or C when C divides N.
C1_ChunkCount ==
  (BulkOk /\ chunk_size >= 1) =>
    LET N == Len(docs)
        C == chunk_size
    IN /\ pos = N
       /\ Len(committed) = Ceil(N, C)
       /\ N > 0 => Cardinality(DocsIn(committed[Len(committed)]))
                     = (IF N % C = 0 THEN C ELSE N % C)

C1_Witness ==
  /\ BulkOk /\ chunk_size = 2 /\ Len(docs) = 3
  /\ Len(committed) = 2 /\ Cardinality(DocsIn(committed[2])) = 1

\* C2: handing upsert the document of an upsert that succeeded, with the
\* same namespace and timestamp, succeeds again and leaves the node set
\* and the relationship set as they were.
C2_UpsertTwice ==
  [][UpsertSame => (ret' = "ok" /\ nodes' = nodes /\ rels' = rels)]_vars

\* C3: a bulk_upsert in which a document failed (no identifier, no mapping,
\* constraint rejected) and no commit failed has pulled the whole stream
\* and committed the statements appended before the failure.
\* (A namespace without "." fails every document of the call alike and is
\* left aside here.)
C3_DocFailureIsLocal ==
  (pc = "done" /\ last = "bulk" /\ ret \in { "KeyError", "ConstraintError" }) =>
    /\ pos = Len(docs)
    /\ DocsIn(tx) \subseteq CommittedDocs

\* C4: as long as the documents seen produced no label but L, the
\* constraint statement for L was executed at most once.
C4_ConstraintOnce ==
  \A l \in DocTypes :
    (\A o \in AllLabels \ { l } : sent[o] = 0) => sent[l] <= 1

\* C5: an id that was removed and not upserted since has no Document node
\* and no relationship at such a node in the store, and no search returns
\* a node with that id, whatever the range.
C5_RemovedStaysOut ==
  \A id \in removed :
    /\ ~ \E n \in nodes : n.doc /\ n.id = id
    /\ ~ \E r \in rels : r.from[2] = id \/ r.to[2] = id
    /\ \A a \in 0..(MaxTs + 1), b \in 0..(MaxTs + 1) :
         ~ \E n \in SearchResult(nodes, a, b) : n.id = id
    /\ ~ \E n \in found : n.id = id

C5_Witness ==
  /\ pc = "done" /\ last = "search" /\ ret = "ok"
  /\ removed # {} /\ found # {}
  /\ \E n \in nodes : ~n.doc

\* C6: every label referenced by a committed statement of upsert,
\* bulk_upsert or update has had its constraint statement executed.
C6_ConstraintBeforeWrite ==
  \A l \in written : sent[l] >= 1

\* C7: a started bulk_upsert returns, whatever the chunk size, and every
\* transaction it commits holds a document.
C7_BulkReturns ==
  /\ (pc \in BulkPcs) ~> (pc = "done")
  /\ [][(pc = "yield" /\ pc' = "while") => tx # <<>>]_vars

\* C8: in the transactions of upsert and bulk_upsert a document's node
\* statements come before its relationship statements, documents come in
\* the order they were pulled, no document is in two transactions, and a
\* bulk_upsert that met no failure has every document in one.
NodesBeforeRels(t) ==
  \A j, k \in 1..Len(t) :
    (j < k /\ t[j].src = t[k].src) => ~(t[j].op = "mergeRel" /\ t[k].op = "mergeNode")

PullOrder(t) == \A j, k \in 1..Len(t) : j < k => t[j].src <= t[k].src

HasRoot(t) ==
  \A d \in DocsIn(t) : \E k \in 1..Len(t) : t[k].src = d /\ t[k].op = "mergeNode" /\ t[k].doc

C8_StatementOrder ==
  (last \in { "upsert", "bulk" }) =>
    /\ \A a \in 1..Len(committed) :
         NodesBeforeRels(committed[a]) /\ PullOrder(committed[a]) /\ HasRoot(committed[a])
    /\ NodesBeforeRels(tx) /\ PullOrder(tx)
    /\ \A a, b \in 1..Len(committed) :
         a < b => \A x \in DocsIn(committed[a]), y \in DocsIn(committed[b]) : x < y
    /\ (BulkOk /\ chunk_size >= 1) => CommittedDocs = 1..Len(docs)

C8_Witness ==
  /\ BulkOk
  /\ \E a \in 1..Len(committed) :
       \E j, k \in 1..Len(committed[a]) :
         /\ j < k
         /\ committed[a][j].op = "mergeRel"
         /\ committed[a][k].op = "mergeNode"

\* C9: a bulk_upsert that met a failure has ended: the chunks before the
\* failing one are committed and in the store, no statement of the failing
\* chunk is committed, and no document after it was pulled.
FailingChunk == DocsIn(tx) \cup (IF ret \in DocErrors THEN { pos } ELSE {})

C9_StopsOnFailure ==
  (last = "bulk" /\ ret \notin { "running", "ok" }) =>
    /\ pc = "done"
    /\ CommittedDocs \cap FailingChunk = {}
    /\ CommittedDocs = 1..(pos - Cardinality(FailingChunk))
    /\ Cardinality(CommittedDocs) = Len(committed) * chunk_size
    /\ \A a \in 1..Len(committed) : \A k \in 1..Len(committed[a]) :
         committed[a][k].op = "mergeNode" =>
           \E n \in nodes : Key(n) = << committed[a][k].label, committed[a][k].id >>

C9_Witness ==
  /\ pc = "done" /\ last = "bulk" /\ ret = "CommitError"
  /\ Len(committed) >= 1 /\ tx # <<>> /\ pos < Len(docs)

\* C10: with chunk size C >= 1 bulk_upsert never has two transactions
\* begun and not committed; when it returns without a failure it has begun
\* floor(N/C) + 1 transactions, all of them committed unless C divides N,
\* and then the last one, empty, is left open.
C10_OneOpenTransaction ==
  (last = "bulk" /\ chunk_size >= 1) =>
    /\ open <= 1
    /\ begun = Len(committed) + open
    /\ BulkOk =>
         LET N == Len(docs)
             C == chunk_size
         IN /\ begun = N \div C + 1
            /\ IF N % C = 0 THEN open = 1 /\ tx = <<>> ELSE open = 0

C10_Witness ==
  /\ BulkOk /\ chunk_size = 2 /\ Len(docs) = 2
  /\ begun = 2 /\ open = 1 /\ Len(committed) = 1

====
